---- MODULE Spec2Model ----
(***************************************************************************)
(* Model of the Sentinel test-coverage pipeline (src/src/agent):           *)
(*   - _retry_api_call, the retry executor (nodes.py);                     *)
(*   - the graph nodes of nodes.py and of graph.py, with the state         *)
(*     reducers of state.py;                                               *)
(*   - aggregate_test_cases, the OR-fold over scenario results.            *)
(* Strings built with f-strings are modelled as tuples of their parts.     *)
(***************************************************************************)
EXTENDS Integers, Sequences, FiniteSets, TLC

VARIABLES
    r_script,       \* what the remote service answers on each successive attempt
    r_max_retries,  \* _retry_api_call's max_retries argument
    r_delay,        \* _retry_api_call's delay argument
    r_st,           \* the locals of one _retry_api_call execution
    variant,        \* which graph runs: "nodes" (nodes.py) or "graph" (graph.py)
    pc,             \* the node the graph runs next
    state,          \* the pipeline State threaded through the nodes
    srs,            \* the SRS document on disk
    cache,          \* regex_extract._cache, the persistent requirement cache
    api_key,        \* whether MISTRAL_API_KEY is set in the environment
    log,            \* history: the nodes executed so far, in order
    body            \* analyze_scenario in progress: its coverage call and its tasks

retry_vars == <<r_script, r_max_retries, r_delay, r_st>>

pipeline_vars == <<variant, pc, state, srs, cache, api_key, log, body>>

vars == <<r_script, r_max_retries, r_delay, r_st,
          variant, pc, state, srs, cache, api_key, log, body>>

\* Python's None where a tuple of words is expected (no exception, no value).
None == <<>>

(***************************************************************************)
(* Retry executor: nodes.py, _retry_api_call                               *)
(***************************************************************************)
MAX_RETRIES == 3

RETRY_DELAY_SECONDS == 5

\* str(e) of the exceptions a wrapped call raises, as tuples of words.
ErrorMessages ==
    { <<"HTTP", "503">>,
      <<"Service unavailable">>,
      <<"HTTP", "401", "Unauthorized">> }

\* One attempt of the wrapped call: it returns a response or raises.
ApiOutcomes ==
    {[ok |-> TRUE, msg |-> <<>>]} \cup {[ok |-> FALSE, msg |-> m] : m \in ErrorMessages}

\* `needle in error_str`, on words.
Contains(error_str, needle) == \E i \in 1..Len(error_str) : error_str[i] = needle

\* A classification that retries every error.
IsTransientAnyError(error_str) == TRUE

IsTransient(error_str) ==
    Contains(error_str, "503") \/ Contains(error_str, "Service unavailable")

RECURSIVE Pow2(_)
Pow2(n) == IF n <= 0 THEN 1 ELSE 2 * Pow2(n - 1)

RetryStart ==
    [attempt |-> 0, calls |-> 0, sleeps |-> <<>>, last_exception |-> None,
     status |-> "running", value |-> None]

\* raise None is a TypeError
RaiseOf(exc) == IF exc = None THEN <<"TypeError">> ELSE exc

\* As RetryIteration, but a transient failure of the last attempt is swallowed
\* and None is returned.
RetryIterationSwallow(st, o, max_retries, delay) ==
    IF st.attempt >= max_retries
    THEN [st EXCEPT !.status = "raised", !.value = RaiseOf(st.last_exception)]
    ELSE IF o.ok
    THEN [st EXCEPT !.calls = @ + 1, !.status = "returned",
                    !.value = <<"response", st.attempt + 1>>]
    ELSE IF IsTransient(o.msg) /\ st.attempt < max_retries - 1
    THEN [st EXCEPT !.calls = @ + 1, !.last_exception = o.msg,
                    !.sleeps = Append(@, delay * Pow2(st.attempt)),
                    !.attempt = @ + 1]
    ELSE IF IsTransient(o.msg)
    THEN [st EXCEPT !.calls = @ + 1, !.last_exception = o.msg,
                    !.status = "returned", !.value = None]
    ELSE [st EXCEPT !.calls = @ + 1, !.last_exception = o.msg,
                    !.status = "raised", !.value = o.msg]

\* As RetryIteration, but a transient failure is followed by a sleep on the
\* last attempt too.
RetryIterationSleepsAfterLast(st, o, max_retries, delay) ==
    IF st.attempt >= max_retries
    THEN [st EXCEPT !.status = "raised", !.value = RaiseOf(st.last_exception)]
    ELSE IF o.ok
    THEN [st EXCEPT !.calls = @ + 1, !.status = "returned",
                    !.value = <<"response", st.attempt + 1>>]
    ELSE IF IsTransient(o.msg)
    THEN [st EXCEPT !.calls = @ + 1, !.last_exception = o.msg,
                    !.sleeps = Append(@, delay * Pow2(st.attempt)),
                    !.attempt = @ + 1]
    ELSE [st EXCEPT !.calls = @ + 1, !.last_exception = o.msg,
                    !.status = "raised", !.value = o.msg]

\* One pass through the for loop of _retry_api_call (or, when range(max_retries)
\* is exhausted, the trailing raise); `o` is the outcome of api_call().
RetryIteration(st, o, max_retries, delay) ==
    IF st.attempt >= max_retries
    THEN [st EXCEPT !.status = "raised", !.value = RaiseOf(st.last_exception)]
    ELSE IF o.ok
    THEN [st EXCEPT !.calls = @ + 1, !.status = "returned",
                    !.value = <<"response", st.attempt + 1>>]
    ELSE IF IsTransient(o.msg) /\ st.attempt < max_retries - 1
    THEN [st EXCEPT !.calls = @ + 1, !.last_exception = o.msg,
                    !.sleeps = Append(@, delay * Pow2(st.attempt)),
                    !.attempt = @ + 1]
    ELSE [st EXCEPT !.calls = @ + 1, !.last_exception = o.msg,
                    !.status = "raised", !.value = o.msg]

ScriptLen == MAX_RETRIES + 1

\* The pipeline's variables while another specification runs.
PipelineIdle ==
    /\ variant = "nodes"
    /\ pc = "idle"
    /\ state = <<>>
    /\ srs = <<>>
    /\ cache = <<>>
    /\ api_key = TRUE
    /\ log = <<>>
    /\ body = <<>>

RetryInit ==
    /\ PipelineIdle
    /\ r_script \in [1..ScriptLen -> ApiOutcomes]
    /\ r_max_retries \in 0..MAX_RETRIES
    /\ r_delay \in {1, RETRY_DELAY_SECONDS}
    /\ r_st = RetryStart

RetryStep ==
    /\ r_st.status = "running"
    /\ r_st' = RetryIteration(r_st, r_script[r_st.calls + 1], r_max_retries, r_delay)
    /\ UNCHANGED <<r_script, r_max_retries, r_delay>>
    /\ UNCHANGED pipeline_vars

RetryNext == RetryStep

RetrySpec == RetryInit /\ [][RetryNext]_vars

\* _retry_api_call run to completion against a scripted service.
RECURSIVE RetryLoop(_, _, _, _)
RetryLoop(st, script, max_retries, delay) ==
    IF st.status # "running"
    THEN st
    ELSE RetryLoop(RetryIteration(st, script[st.calls + 1], max_retries, delay),
                   script, max_retries, delay)

\* What `await _retry_api_call(_make_api_call)` gives a node, with the default
\* arguments: it returns a response or raises the error of some attempt.
retry_api_call(script) ==
    LET st == RetryLoop(RetryStart, script, MAX_RETRIES, RETRY_DELAY_SECONDS)
    IN  [raised |-> st.status = "raised",
         error |-> IF st.status = "raised" THEN st.value ELSE None]

ApiResults == {retry_api_call(script) : script \in [1..ScriptLen -> ApiOutcomes]}

(***************************************************************************)
(* Pipeline state: state.py, State and its reducers                        *)
(***************************************************************************)
MaxScenarios == 2

ReqNames == {"REQ-001"}

TestCaseIds == {"TC-001", "TC-002"}

DescriptionOf(id) == <<"checks ", id>>

BoundedSeq(S, n) == UNION {[1..k -> S] : k \in 0..n}

\* A node's return value: a state delta, or an exception leaving the node.
Return(delta) == [raised |-> FALSE, delta |-> delta]

Throw == [raised |-> TRUE, delta |-> <<>>]

\* `not obj` is False for every object without __bool__/__len__ (a pydantic
\* model) and True for None.
Truthy(obj) == obj # None

\* As replace_or_keep, but an empty value replaces too.
replace_always(current, new) == new

\* "" is the empty tuple of words.
replace_or_keep(current, new) == IF new # <<>> THEN new ELSE current

\* As last_value, but the value written is dropped.
last_value_keeps_current(current, new) == current

last_value(current, new) == new

\* The State a run starts from: only req_name is given; state.get() supplies
\* the defaults of the keys not yet written.
InitialState(req_name) ==
    [req_name |-> req_name,
     scenario_paths |-> <<>>,
     current_scenario_index |-> 0,
     current_scenario_content |-> <<>>,
     current_scenario_name |-> <<>>,
     requirement_description |-> <<>>,
     rag_context |-> <<>>,
     generated_test_cases |-> <<>>,
     scenario_results |-> <<>>,
     aggregated_test_cases |-> <<>>,
     false_positives |-> <<>>,
     errors |-> <<>>]

\* The reducer State annotates each key with: operator.add, last_value,
\* replace_or_keep, or plain overwrite for a key without annotation.
Reduce(key, current, new) ==
    CASE key \in {"scenario_results", "false_positives", "errors"} -> current \o new
      [] key = "current_scenario_index" -> last_value(current, new)
      [] key \in {"requirement_description", "current_scenario_content",
                  "current_scenario_name"} -> replace_or_keep(current, new)
      [] OTHER -> new

\* The graph runtime merging a node's delta into the state.
Merge(s, delta) ==
    [key \in DOMAIN s |->
        IF key \in DOMAIN delta THEN Reduce(key, s[key], delta[key]) ELSE s[key]]

(***************************************************************************)
(* Requirement resolution: regex_extract.py                                *)
(***************************************************************************)
\* The SRS document: its SHA256 and, per requirement id found in its text,
\* the text _extract_requirement cuts out; parseable is FALSE for a file
\* pymupdf cannot open.
SrsA == [hash |-> "sha-A", parseable |-> TRUE,
         requirements |-> [r \in ReqNames |-> <<"text A of ", r>>]]

SrsB == [hash |-> "sha-B", parseable |-> TRUE,
         requirements |-> [r \in ReqNames |-> <<"text B of ", r>>]]

SrsWithout == [hash |-> "sha-C", parseable |-> TRUE, requirements |-> <<>>]

SrsCorrupt == [hash |-> "sha-D", parseable |-> FALSE, requirements |-> <<>>]

get_pdf_hash(doc) == doc.hash

CacheGet(c, key) == IF key \in DOMAIN c THEN c[key] ELSE None

CacheSet(c, key, value) ==
    [k \in DOMAIN c \cup {key} |-> IF k = key THEN value ELSE c[k]]

\* pymupdf text extraction followed by _extract_requirement(req_id, srs_text)
extract_requirement(req_id, doc) ==
    IF req_id \in DOMAIN doc.requirements THEN doc.requirements[req_id] ELSE None

\* As get_requirement, but a changed hash is stored without clearing the cache.
get_requirement_keeps_entries(req_id, doc, c) ==
    LET current_hash == get_pdf_hash(doc)
        c1 == IF CacheGet(c, "_pdf_hash") # <<current_hash>>
              THEN CacheSet(c, "_pdf_hash", <<current_hash>>)
              ELSE c
    IN  IF req_id \in DOMAIN c1
        THEN [raised |-> FALSE, result |-> c1[req_id], cache |-> c1]
        ELSE IF ~doc.parseable
        THEN [raised |-> TRUE, result |-> None, cache |-> c1]
        ELSE LET result == extract_requirement(req_id, doc)
             IN  [raised |-> FALSE, result |-> result,
                  cache |-> IF result # None THEN CacheSet(c1, req_id, result) ELSE c1]

\* As get_requirement, but the result is stored even when nothing was found.
get_requirement_caches_misses(req_id, doc, c) ==
    LET current_hash == get_pdf_hash(doc)
        c1 == IF CacheGet(c, "_pdf_hash") # <<current_hash>>
              THEN CacheSet(<<>>, "_pdf_hash", <<current_hash>>)
              ELSE c
    IN  IF req_id \in DOMAIN c1
        THEN [raised |-> FALSE, result |-> c1[req_id], cache |-> c1]
        ELSE IF ~doc.parseable
        THEN [raised |-> TRUE, result |-> None, cache |-> c1]
        ELSE LET result == extract_requirement(req_id, doc)
             IN  [raised |-> FALSE, result |-> result,
                  cache |-> CacheSet(c1, req_id, result)]

\* get_requirement: [raised, result, cache] with the cache as it leaves it.
get_requirement(req_id, doc, c) ==
    LET current_hash == get_pdf_hash(doc)
        c1 == IF CacheGet(c, "_pdf_hash") # <<current_hash>>
              THEN CacheSet(<<>>, "_pdf_hash", <<current_hash>>)
              ELSE c
    IN  IF req_id \in DOMAIN c1
        THEN [raised |-> FALSE, result |-> c1[req_id], cache |-> c1]
        ELSE IF ~doc.parseable
        THEN [raised |-> TRUE, result |-> None, cache |-> c1]
        ELSE LET result == extract_requirement(req_id, doc)
             IN  [raised |-> FALSE, result |-> result,
                  cache |-> IF result # None THEN CacheSet(c1, req_id, result) ELSE c1]

\* retrieve_requirement_regex(RegexState(req_name, errors)): the delta.
retrieve_requirement_regex(regex_state, got) ==
    IF got.raised
    THEN [errors |-> Append(regex_state.errors, <<"Regex extraction error: ", "pymupdf">>)]
    ELSE IF got.result = None
    THEN [errors |-> Append(regex_state.errors,
                            <<"Requirement ", regex_state.req_name, " not found">>)]
    ELSE [requirement_description |-> got.result]

(***************************************************************************)
(* Graph nodes: nodes.py                                                   *)
(***************************************************************************)
ScenarioFile(i) == <<"dataset/TS/test_", i, "/", "scenario_", i, ".xml">>

\* Path(path).stem
Stem(path) == <<path[4], path[5]>>

\* What retrieve_scenario_and_dataset_files returns: a ScenarioDatasetAnalysis
\* (possibly with no scenarios, possibly naming a file twice) or nothing.
LocatorResults ==
    {None}
    \cup {[scenarios |-> [i \in 1..k |-> ScenarioFile(i)], datasets |-> <<>>] :
             k \in 0..MaxScenarios}
    \cup {[scenarios |-> <<ScenarioFile(1), ScenarioFile(1)>>, datasets |-> <<>>]}

\* load_scenarios; dataset_paths is no key of State and is dropped by the graph.
load_scenarios(s, paths) ==
    IF ~Truthy(paths)
    THEN Return([errors |-> << <<"No scenarios found for ", s.req_name>> >>])
    ELSE Return([scenario_paths |-> paths.scenarios, current_scenario_index |-> 0])

retrieve_requirement(s, got) ==
    Return(retrieve_requirement_regex([req_name |-> s.req_name, errors |-> s.errors], got))

\* A chat.parse_async response: no choices, a choice without message, or a
\* message whose parsed field is None or the structured object.
Response(parsed) == [choices |-> << [message |-> [parsed |-> parsed]] >>]

ResponsesOf(objects) ==
    {[choices |-> <<>>], [choices |-> << [message |-> None] >>], Response(None)}
    \cup {Response(o) : o \in objects}

\* A model call as a node sees it: _retry_api_call raises (the response is then
\* never looked at), or returns one of the responses.
ModelCalls(objects) ==
    {[api |-> a, response |-> Response(None)] : a \in {x \in ApiResults : x.raised}}
    \cup {[api |-> a, response |-> r] :
             a \in {x \in ApiResults : ~x.raised}, r \in ResponsesOf(objects)}

get_parsed(response) ==
    IF response.choices = <<>> \/ response.choices[1].message = None
    THEN None
    ELSE response.choices[1].message.parsed

GeneratedCase(id) == [id |-> id, description |-> DescriptionOf(id)]

\* TestCaseList objects the generation call may return.
TestCaseLists ==
    {[test_cases |-> l] :
        l \in { <<>>,
                <<GeneratedCase("TC-001"), GeneratedCase("TC-002")>>,
                <<GeneratedCase("TC-001"), GeneratedCase("TC-001")>> }}

\* f"{tc.id}: {tc.description}"
FormatTestCase(tc) == <<tc.id, ": ">> \o tc.description

generate_test_cases(s, key_set, api, response) ==
    IF s.errors # <<>>
    THEN Return(<<>>)
    ELSE IF ~key_set
    THEN Throw
    ELSE IF api.raised
    THEN Return([errors |-> << <<"Test case generation error: ", api.error>> >>])
    ELSE LET parsed == get_parsed(response)
         IN  IF ~Truthy(parsed)
             THEN Return([errors |-> << <<"No parsed response from LLM">> >>])
             ELSE Return([generated_test_cases |->
                             [i \in 1..Len(parsed.test_cases) |->
                                 FormatTestCase(parsed.test_cases[i])]])

AnalyzedCase(id, present) ==
    [id |-> id, description |-> DescriptionOf(id), present |-> present]

AnalyzedCases == {AnalyzedCase(id, p) : id \in TestCaseIds, p \in BOOLEAN}

\* CoverageAnalysis objects the coverage call may return: no case, one case, or
\* two cases of which the first is about TC-001 (the second may repeat its id).
\* The evidence strings only feed the verification prompts and are left out.
CoverageAnalyses ==
    {[test_cases |-> l] :
        l \in {<<>>} \cup {<<a>> : a \in AnalyzedCases}
                     \cup {<<a, b>> : a \in {x \in AnalyzedCases : x.id = "TC-001"},
                                      b \in AnalyzedCases}}

\* _identify_coverage: [raised, result]; result is the dict it returns.
identify_coverage(s, key_set, api, response) ==
    IF s.generated_test_cases = <<>>
    THEN [raised |-> FALSE, result |-> [test_cases |-> <<>>]]
    ELSE IF ~key_set
    THEN [raised |-> TRUE, result |-> <<>>]
    ELSE IF api.raised
    THEN [raised |-> FALSE, result |-> [error |-> <<"Coverage analysis error: ", api.error>>]]
    ELSE LET parsed == get_parsed(response)
         IN  IF ~Truthy(parsed)
             THEN [raised |-> FALSE,
                   result |-> [error |-> <<"No parsed response from coverage LLM">>]]
             ELSE [raised |-> FALSE,
                   result |-> [test_cases |->
                       [i \in 1..Len(parsed.test_cases) |->
                           [id |-> parsed.test_cases[i].id,
                            description |-> parsed.test_cases[i].description,
                            present |-> parsed.test_cases[i].present]]]]

\* One verification call: what _retry_api_call gives and, when it returns,
\* the FalsePositiveCheck the response carries.
FalsePositiveChecks == {[is_false_positive |-> b, reason |-> "reason"] : b \in BOOLEAN}

VerificationCalls == ModelCalls(FalsePositiveChecks)

ExceptionValue == [exception |-> "ValueError"]

\* _verify_single_tc: a FalsePositive dict, None, or (get_mistral_client
\* raising outside the try) an exception, which gather returns as a value.
verify_single_tc(tc, key_set, call, scenario_result) ==
    IF ~key_set
    THEN ExceptionValue
    ELSE IF call.api.raised
    THEN None
    ELSE LET parsed == get_parsed(call.response)
         IN  IF Truthy(parsed) /\ parsed.is_false_positive
             THEN [scenario_name |-> scenario_result.scenario_name,
                   scenario_path |-> scenario_result.scenario_path,
                   test_case_id |-> tc.id,
                   test_case_description |-> tc.description,
                   reason |-> parsed.reason]
             ELSE None

IsDict(r) == r # ExceptionValue /\ r # None

\* _verify_false_positives: one task per present case, gathered in order.
verify_false_positives(present_tcs, key_set, calls, scenario_result) ==
    IF present_tcs = <<>>
    THEN <<>>
    ELSE LET results == [i \in 1..Len(present_tcs) |->
                            verify_single_tc(present_tcs[i], key_set, calls[i],
                                             scenario_result)]
         IN  SelectSeq(results, IsDict)

IsPresent(tc) == tc.present

ReadError(path) == <<"Error reading ", path, ": ", "[Errno 2] No such file">>

\* As analyze_scenario, but a failed iteration records its error without
\* advancing the index.
analyze_scenario_no_advance_on_error(s, key_set, read_ok, api, response, calls) ==
    LET paths == s.scenario_paths
        idx == s.current_scenario_index
    IN  IF s.errors # <<>>
        THEN Return([current_scenario_index |-> idx + 1])
        ELSE IF idx >= Len(paths)
        THEN Return(<<>>)
        ELSE LET path == paths[idx + 1]
                 scenario_name == Stem(path)
                 cov == identify_coverage(s, key_set, api, response)
             IN  IF ~read_ok
                 THEN Return([errors |-> <<ReadError(path)>>])
                 ELSE IF cov.raised
                 THEN Throw
                 ELSE IF "error" \in DOMAIN cov.result
                 THEN Return([errors |-> <<cov.result.error>>])
                 ELSE LET test_cases == cov.result.test_cases
                          scenario_result ==
                              [scenario_name |-> scenario_name,
                               scenario_path |-> path,
                               test_cases |-> test_cases]
                          present_tcs == SelectSeq(test_cases, IsPresent)
                          false_positives ==
                              verify_false_positives(present_tcs, key_set, calls,
                                                     scenario_result)
                          fp_ids == {false_positives[i].test_case_id :
                                        i \in 1..Len(false_positives)}
                          updated ==
                              [scenario_result EXCEPT !.test_cases =
                                  [i \in 1..Len(test_cases) |->
                                      IF test_cases[i].id \in fp_ids
                                      THEN [test_cases[i] EXCEPT !.present = FALSE]
                                      ELSE test_cases[i]]]
                      IN  Return([scenario_results |-> <<updated>>,
                                  false_positives |-> false_positives,
                                  current_scenario_index |-> idx + 1])

\* As analyze_scenario, but the confirmed false positives are recorded without
\* flipping their cases in the scenario result.
analyze_scenario_keeps_present(s, key_set, read_ok, api, response, calls) ==
    LET paths == s.scenario_paths
        idx == s.current_scenario_index
    IN  IF s.errors # <<>>
        THEN Return([current_scenario_index |-> idx + 1])
        ELSE IF idx >= Len(paths)
        THEN Return(<<>>)
        ELSE LET path == paths[idx + 1]
                 scenario_name == Stem(path)
                 cov == identify_coverage(s, key_set, api, response)
             IN  IF ~read_ok
                 THEN Return([errors |-> <<ReadError(path)>>,
                              current_scenario_index |-> idx + 1])
                 ELSE IF cov.raised
                 THEN Throw
                 ELSE IF "error" \in DOMAIN cov.result
                 THEN Return([errors |-> <<cov.result.error>>,
                              current_scenario_index |-> idx + 1])
                 ELSE LET test_cases == cov.result.test_cases
                          scenario_result ==
                              [scenario_name |-> scenario_name,
                               scenario_path |-> path,
                               test_cases |-> test_cases]
                          present_tcs == SelectSeq(test_cases, IsPresent)
                          false_positives ==
                              verify_false_positives(present_tcs, key_set, calls,
                                                     scenario_result)
                          updated == scenario_result
                      IN  Return([scenario_results |-> <<updated>>,
                                  false_positives |-> false_positives,
                                  current_scenario_index |-> idx + 1])

\* analyze_scenario: load the scenario, identify coverage, verify the present
\* cases, flip the confirmed false positives, and advance the index.
analyze_scenario(s, key_set, read_ok, api, response, calls) ==
    LET paths == s.scenario_paths
        idx == s.current_scenario_index
    IN  IF s.errors # <<>>
        THEN Return([current_scenario_index |-> idx + 1])
        ELSE IF idx >= Len(paths)
        THEN Return(<<>>)
        ELSE LET path == paths[idx + 1]
                 scenario_name == Stem(path)
                 cov == identify_coverage(s, key_set, api, response)
             IN  IF ~read_ok
                 THEN Return([errors |-> <<ReadError(path)>>,
                              current_scenario_index |-> idx + 1])
                 ELSE IF cov.raised
                 THEN Throw
                 ELSE IF "error" \in DOMAIN cov.result
                 THEN Return([errors |-> <<cov.result.error>>,
                              current_scenario_index |-> idx + 1])
                 ELSE LET test_cases == cov.result.test_cases
                          scenario_result ==
                              [scenario_name |-> scenario_name,
                               scenario_path |-> path,
                               test_cases |-> test_cases]
                          present_tcs == SelectSeq(test_cases, IsPresent)
                          false_positives ==
                              verify_false_positives(present_tcs, key_set, calls,
                                                     scenario_result)
                          fp_ids == {false_positives[i].test_case_id :
                                        i \in 1..Len(false_positives)}
                          updated ==
                              [scenario_result EXCEPT !.test_cases =
                                  [i \in 1..Len(test_cases) |->
                                      IF test_cases[i].id \in fp_ids
                                      THEN [test_cases[i] EXCEPT !.present = FALSE]
                                      ELSE test_cases[i]]]
                      IN  Return([scenario_results |-> <<updated>>,
                                  false_positives |-> false_positives,
                                  current_scenario_index |-> idx + 1])

\* As route_scenario_loop, without the test on errors.
route_scenario_loop_ignoring_errors(s) ==
    IF s.current_scenario_index < Len(s.scenario_paths) THEN "continue" ELSE "end"

route_scenario_loop(s) ==
    IF s.errors # <<>>
    THEN "end"
    ELSE IF s.current_scenario_index < Len(s.scenario_paths) THEN "continue" ELSE "end"

(***************************************************************************)
(* Aggregation: nodes.py and graph.py, aggregate_test_cases                *)
(***************************************************************************)
\* Every test case of every scenario result, in iteration order.
RECURSIVE AllTestCases(_)
AllTestCases(results) ==
    IF results = <<>> THEN <<>>
    ELSE Head(results).test_cases \o AllTestCases(Tail(results))

IndexOfId(aggregated, tc_id) ==
    IF \E i \in 1..Len(aggregated) : aggregated[i].id = tc_id
    THEN CHOOSE i \in 1..Len(aggregated) : aggregated[i].id = tc_id
    ELSE 0

\* As AggregateOne, but a later verdict replaces the earlier one.
AggregateOneLastWins(aggregated, tc) ==
    LET i == IndexOfId(aggregated, tc.id)
    IN  IF i = 0
        THEN Append(aggregated,
                    [id |-> tc.id, description |-> tc.description, present |-> tc.present])
        ELSE [aggregated EXCEPT ![i].present = tc.present]

\* As AggregateOne, but the id is not looked up: every case is appended.
AggregateOneAppendAlways(aggregated, tc) ==
    Append(aggregated,
           [id |-> tc.id, description |-> tc.description, present |-> tc.present])

\* One pass of the inner loop: aggregated is the dict's values in insertion order.
AggregateOne(aggregated, tc) ==
    LET i == IndexOfId(aggregated, tc.id)
    IN  IF i = 0
        THEN Append(aggregated,
                    [id |-> tc.id, description |-> tc.description, present |-> tc.present])
        ELSE IF tc.present
        THEN [aggregated EXCEPT ![i].present = TRUE]
        ELSE aggregated

RECURSIVE AggregateFold(_, _)
AggregateFold(aggregated, tcs) ==
    IF tcs = <<>> THEN aggregated
    ELSE AggregateFold(AggregateOne(aggregated, Head(tcs)), Tail(tcs))

aggregate_test_cases(s) ==
    LET results == s.scenario_results
    IN  IF results = <<>>
        THEN Return([aggregated_test_cases |-> <<>>])
        ELSE Return([aggregated_test_cases |-> AggregateFold(<<>>, AllTestCases(results))])

(***************************************************************************)
(* Graph nodes: graph.py (State is a dataclass without reducers: every key *)
(* a node returns overwrites the state's)                                  *)
(***************************************************************************)
GraphMerge(s, delta) ==
    [key \in DOMAIN s |-> IF key \in DOMAIN delta THEN delta[key] ELSE s[key]]

\* find_scenario_xml_files: the scenario files found, in sorted order.
FoundScenarioFiles == {[i \in 1..k |-> ScenarioFile(i)] : k \in 0..MaxScenarios}

graph_load_scenarios(s, scenario_paths) ==
    IF scenario_paths = <<>>
    THEN Return([errors |-> Append(s.errors,
                    <<"Aucun scenario trouve pour le requirement ", s.req_name>>)])
    ELSE Return([scenario_paths |-> scenario_paths])

\* asimilarity_search: it raises, or returns the documents found.
RagResults ==
    {[raised |-> TRUE, docs |-> <<>>], [raised |-> FALSE, docs |-> <<>>]}
    \cup {[raised |-> FALSE, docs |-> << [page_content |-> <<"text of ", r>>] >>] :
             r \in ReqNames}

graph_retrieve_requirement(s, rag) ==
    IF rag.raised
    THEN Return([errors |-> Append(s.errors, <<"Erreur RAG: ", "chroma">>)])
    ELSE IF rag.docs = <<>>
    THEN Return([errors |-> Append(s.errors,
                    <<"Aucun document trouve pour le requirement ", s.req_name>>)])
    ELSE Return([rag_context |-> rag.docs[1].page_content,
                 requirement_description |-> rag.docs[1].page_content])

\* structured_llm.ainvoke: it raises, or returns the structured object.
LlmCalls(objects) ==
    {[raised |-> TRUE, error |-> m, object |-> None] : m \in ErrorMessages}
    \cup {[raised |-> FALSE, error |-> None, object |-> o] : o \in objects}

graph_generate_test_cases(s, llm) ==
    IF s.errors # <<>>
    THEN Return(<<>>)
    ELSE IF llm.raised
    THEN Return([errors |-> Append(s.errors, <<"Erreur LLM1: ", llm.error>>)])
    ELSE Return([generated_test_cases |->
                    [i \in 1..Len(llm.object.test_cases) |->
                        FormatTestCase(llm.object.test_cases[i])]])

\* open(scenario_path).read(): it raises, or returns the (possibly empty) text.
FileReads ==
    {[raised |-> TRUE, content |-> <<>>], [raised |-> FALSE, content |-> <<>>],
     [raised |-> FALSE, content |-> <<"<scenario/>">>]}

load_current_scenario(s, read) ==
    IF s.errors # <<>> \/ s.scenario_paths = <<>>
    THEN Return(<<>>)
    ELSE IF s.current_scenario_index >= Len(s.scenario_paths)
    THEN Return(<<>>)
    ELSE LET scenario_path == s.scenario_paths[s.current_scenario_index + 1]
         IN  IF read.raised
             THEN Return([errors |-> Append(s.errors,
                             <<"Erreur lecture ", scenario_path, ": ", "[Errno 2]">>)])
             ELSE Return([current_scenario_content |-> read.content,
                          current_scenario_name |-> Stem(scenario_path)])

analyze_test_scenario(s, llm) ==
    IF s.errors # <<>> \/ s.generated_test_cases = <<>> \/ s.current_scenario_content = <<>>
    THEN Return(<<>>)
    ELSE IF llm.raised
    THEN Return([errors |-> Append(s.errors, <<"Erreur LLM2: ", llm.error>>)])
    ELSE LET test_cases_with_status ==
                 [i \in 1..Len(llm.object.test_cases) |->
                     [id |-> llm.object.test_cases[i].id,
                      description |-> llm.object.test_cases[i].description,
                      present |-> llm.object.test_cases[i].present]]
             scenario_result ==
                 [scenario_name |-> s.current_scenario_name,
                  scenario_path |-> s.scenario_paths[s.current_scenario_index + 1],
                  test_cases |-> test_cases_with_status]
         IN  Return([scenario_results |-> Append(s.scenario_results, scenario_result)])

move_to_next_scenario(s) ==
    Return([current_scenario_index |-> s.current_scenario_index + 1])

has_more_scenarios(s) ==
    IF s.errors # <<>>
    THEN "end"
    ELSE IF s.current_scenario_index < Len(s.scenario_paths) THEN "continue" ELSE "end"

\* graph.py's inner loop: present = old or new.
GraphAggregateOne(aggregated, tc) ==
    LET i == IndexOfId(aggregated, tc.id)
    IN  IF i = 0
        THEN Append(aggregated,
                    [id |-> tc.id, description |-> tc.description, present |-> tc.present])
        ELSE [aggregated EXCEPT ![i].present = @ \/ tc.present]

RECURSIVE GraphAggregateFold(_, _)
GraphAggregateFold(aggregated, tcs) ==
    IF tcs = <<>> THEN aggregated
    ELSE GraphAggregateFold(GraphAggregateOne(aggregated, Head(tcs)), Tail(tcs))

graph_aggregate_test_cases(s) ==
    IF s.scenario_results = <<>>
    THEN Return([aggregated_test_cases |-> <<>>])
    ELSE Return([aggregated_test_cases |->
                    GraphAggregateFold(<<>>, AllTestCases(s.scenario_results))])

\* The compiled graph of nodes.py: entry point, edges, and the conditional edge
\* after the loop body keyed by route_scenario_loop's answer.
NodesEdges ==
    [__start__ |-> "load_scenarios",
     load_scenarios |-> "retrieve_requirement",
     retrieve_requirement |-> "generate_test_cases",
     generate_test_cases |-> "analyze_scenario",
     aggregate_test_cases |-> "done"]

NodesConditionalEdges ==
    [continue |-> "analyze_scenario", end |-> "aggregate_test_cases"]

\* The compiled graph of graph.py.
GraphEdges ==
    [__start__ |-> "load_scenarios",
     load_scenarios |-> "retrieve_requirement",
     retrieve_requirement |-> "generate_test_cases",
     generate_test_cases |-> "load_current_scenario",
     load_current_scenario |-> "analyze_test_scenario",
     analyze_test_scenario |-> "move_to_next_scenario",
     aggregate_test_cases |-> "done"]

GraphConditionalEdges ==
    [continue |-> "load_current_scenario", end |-> "aggregate_test_cases"]

(***************************************************************************)
(* The graph: one action per node                                          *)
(***************************************************************************)
RetryIdle ==
    /\ r_script = <<>>
    /\ r_max_retries = 0
    /\ r_delay = 0
    /\ r_st = [RetryStart EXCEPT !.status = "idle"]

\* Caches earlier runs can have left behind.
PriorCaches ==
    {<<>>} \cup {get_requirement(r, d, <<>>).cache : r \in ReqNames, d \in {SrsA, SrsB, SrsWithout}}

NoCall == [api |-> [raised |-> FALSE, error |-> None], response |-> Response(None)]

\* No analyze_scenario is in progress.
BodyIdle ==
    [phase |-> "idle", scenario |-> 0, cov |-> NoCall, tasks |-> <<>>, order |-> <<>>]

Init ==
    /\ RetryIdle
    /\ variant \in {"nodes", "graph"}
    /\ pc = IF variant = "nodes" THEN NodesEdges.__start__ ELSE GraphEdges.__start__
    /\ state \in {InitialState(r) : r \in ReqNames}
    /\ srs \in IF variant = "nodes" THEN {SrsA, SrsWithout, SrsCorrupt} ELSE {SrsA}
    /\ cache \in IF variant = "nodes" THEN PriorCaches ELSE {<<>>}
    /\ api_key \in IF variant = "nodes" THEN BOOLEAN ELSE {TRUE}
    /\ log = <<>>
    /\ body = BodyIdle

\* The runtime after a node: merge the delta and follow the edge, or let the
\* node's exception end the run.
Deliver(node, result, next) ==
    /\ pc' = IF result.raised THEN "raised" ELSE next
    /\ state' = IF result.raised THEN state ELSE Merge(state, result.delta)
    /\ log' = Append(log, [node |-> node,
                           index |-> state.current_scenario_index,
                           raised |-> result.raised,
                           keys |-> DOMAIN result.delta])
    /\ UNCHANGED <<variant, srs, api_key>>
    /\ UNCHANGED retry_vars

\* A node that runs in one piece.
Step(node, result, next) ==
    /\ Deliver(node, result, next)
    /\ UNCHANGED body

LoadScenarios ==
    /\ variant = "nodes"
    /\ pc = "load_scenarios"
    /\ \/ \E paths \in LocatorResults :
            Step("load_scenarios", load_scenarios(state, paths), NodesEdges.load_scenarios)
       \/ Step("load_scenarios", Throw, NodesEdges.load_scenarios)
    /\ UNCHANGED cache

RetrieveRequirement ==
    /\ variant = "nodes"
    /\ pc = "retrieve_requirement"
    /\ LET got == get_requirement(state.req_name, srs, cache)
       IN  /\ Step("retrieve_requirement", retrieve_requirement(state, got),
                   NodesEdges.retrieve_requirement)
           /\ cache' = got.cache

GenerateTestCases ==
    /\ variant = "nodes"
    /\ pc = "generate_test_cases"
    /\ \E call \in ModelCalls(TestCaseLists) :
          Step("generate_test_cases",
               generate_test_cases(state, api_key, call.api, call.response),
               NodesEdges.generate_test_cases)
    /\ UNCHANGED cache

NumPresent(response) ==
    LET parsed == get_parsed(response)
    IN  IF parsed = None THEN 0 ELSE Len(SelectSeq(parsed.test_cases, IsPresent))

AfterAnalyze(result) ==
    IF route_scenario_loop(Merge(state, result.delta)) = "continue"
    THEN NodesConditionalEdges.continue
    ELSE NodesConditionalEdges.end

\* analyze_scenario followed by the conditional edge route_scenario_loop. The
\* scenario file cannot be read, or it is read and the model calls are made.
AnalyzeScenario ==
    /\ variant = "nodes"
    /\ pc = "analyze_scenario"
    /\ \/ LET result == analyze_scenario(state, api_key, FALSE, NoCall.api,
                                         NoCall.response, <<>>)
          IN  Step("analyze_scenario", result, AfterAnalyze(result))
       \/ \E cov \in ModelCalls(CoverageAnalyses) :
             \E calls \in [1..NumPresent(cov.response) -> VerificationCalls] :
                LET result == analyze_scenario(state, api_key, TRUE, cov.api,
                                               cov.response, calls)
                IN  Step("analyze_scenario", result, AfterAnalyze(result))
    /\ UNCHANGED cache

AggregateTestCases ==
    /\ variant = "nodes"
    /\ pc = "aggregate_test_cases"
    /\ Step("aggregate_test_cases", aggregate_test_cases(state), NodesEdges.aggregate_test_cases)
    /\ UNCHANGED cache

\* graph.py's runtime step: as Step, with the dataclass State's overwrite.
GraphStep(node, result, next) ==
    /\ pc' = next
    /\ state' = GraphMerge(state, result.delta)
    /\ log' = Append(log, [node |-> node,
                           index |-> state.current_scenario_index,
                           raised |-> FALSE,
                           keys |-> DOMAIN result.delta])
    /\ UNCHANGED <<variant, srs, cache, api_key, body>>
    /\ UNCHANGED retry_vars

GraphLoadScenarios ==
    /\ variant = "graph"
    /\ pc = "load_scenarios"
    /\ \E scenario_paths \in FoundScenarioFiles :
          GraphStep("load_scenarios", graph_load_scenarios(state, scenario_paths),
                    GraphEdges.load_scenarios)

GraphRetrieveRequirement ==
    /\ variant = "graph"
    /\ pc = "retrieve_requirement"
    /\ \E rag \in RagResults :
          GraphStep("retrieve_requirement", graph_retrieve_requirement(state, rag),
                    GraphEdges.retrieve_requirement)

GraphGenerateTestCases ==
    /\ variant = "graph"
    /\ pc = "generate_test_cases"
    /\ \E llm \in LlmCalls(TestCaseLists) :
          GraphStep("generate_test_cases", graph_generate_test_cases(state, llm),
                    GraphEdges.generate_test_cases)

LoadCurrentScenario ==
    /\ variant = "graph"
    /\ pc = "load_current_scenario"
    /\ \E read \in FileReads :
          GraphStep("load_current_scenario", load_current_scenario(state, read),
                    GraphEdges.load_current_scenario)

AnalyzeTestScenario ==
    /\ variant = "graph"
    /\ pc = "analyze_test_scenario"
    /\ \E llm \in LlmCalls(CoverageAnalyses) :
          GraphStep("analyze_test_scenario", analyze_test_scenario(state, llm),
                    GraphEdges.analyze_test_scenario)

\* move_to_next_scenario followed by the conditional edge has_more_scenarios.
MoveToNextScenario ==
    /\ variant = "graph"
    /\ pc = "move_to_next_scenario"
    /\ LET result == move_to_next_scenario(state)
       IN  GraphStep("move_to_next_scenario", result,
                     IF has_more_scenarios(GraphMerge(state, result.delta)) = "continue"
                     THEN GraphConditionalEdges.continue
                     ELSE GraphConditionalEdges.end)

GraphAggregateTestCases ==
    /\ variant = "graph"
    /\ pc = "aggregate_test_cases"
    /\ GraphStep("aggregate_test_cases", graph_aggregate_test_cases(state),
                 GraphEdges.aggregate_test_cases)

Next ==
    \/ LoadScenarios
    \/ RetrieveRequirement
    \/ GenerateTestCases
    \/ AnalyzeScenario
    \/ AggregateTestCases
    \/ GraphLoadScenarios
    \/ GraphRetrieveRequirement
    \/ GraphGenerateTestCases
    \/ LoadCurrentScenario
    \/ AnalyzeTestScenario
    \/ MoveToNextScenario
    \/ GraphAggregateTestCases

Spec == Init /\ [][Next]_vars

(***************************************************************************)
(* analyze_scenario step by step: the awaits inside the node               *)
(***************************************************************************)
\* present_tcs = [tc for tc in test_cases if tc["present"]]
PresentCases(test_cases) == SelectSeq(test_cases, IsPresent)

\* As VerificationTasks, but only the first present case gets a task.
VerificationTasksFirstOnly(present_tcs, scenario) ==
    [i \in 1..(IF present_tcs = <<>> THEN 0 ELSE 1) |->
        [tc |-> present_tcs[i], scenario |-> scenario, status |-> "running",
         call |-> NoCall]]

\* tasks = [_verify_single_tc(tc, ...) for tc in present_tcs]: the coroutines
\* asyncio.gather schedules, all at once.
VerificationTasks(present_tcs, scenario) ==
    [i \in 1..Len(present_tcs) |->
        [tc |-> present_tcs[i], scenario |-> scenario, status |-> "running",
         call |-> NoCall]]

\* As GatherDone, but the first finished task ends the wait.
GatherDoneFirstCompleted(tasks) ==
    tasks = <<>> \/ \E i \in 1..Len(tasks) : tasks[i].status = "finished"

\* await asyncio.gather(*tasks, return_exceptions=True) resumes.
GatherDone(tasks) == \A i \in 1..Len(tasks) : tasks[i].status = "finished"

IsRunning(task) == task.status = "running"

\* The tasks analyze_scenario created for the scenario it is working on.
CurrentTasks == SelectSeq(body.tasks, LAMBDA t : t.scenario = body.scenario)

\* As TaskCalls, but the results are taken in the order of completion.
TaskCallsInCompletionOrder ==
    [i \in 1..NumPresent(body.cov.response) |->
        IF i <= Len(body.order) /\ body.order[i] <= Len(body.tasks)
        THEN body.tasks[body.order[i]].call
        ELSE NoCall]

\* The results of gather, in the order of the tasks whatever the order of
\* completion: the verification call of each present case.
TaskCalls ==
    [i \in 1..NumPresent(body.cov.response) |->
        IF i <= Len(CurrentTasks) THEN CurrentTasks[i].call ELSE NoCall]

\* Entry of the node: the guards, then reading the scenario file.
BodyEnter ==
    /\ variant = "nodes"
    /\ pc = "analyze_scenario"
    /\ body.phase = "idle"
    /\ IF state.errors # <<>> \/ state.current_scenario_index >= Len(state.scenario_paths)
       THEN LET result == analyze_scenario(state, api_key, TRUE, NoCall.api,
                                           NoCall.response, <<>>)
            IN  /\ Deliver("analyze_scenario", result, AfterAnalyze(result))
                /\ body' = [body EXCEPT !.cov = NoCall,
                                        !.tasks = SelectSeq(body.tasks, IsRunning),
                                        !.order = <<>>]
       ELSE \/ LET result == analyze_scenario(state, api_key, FALSE, NoCall.api,
                                              NoCall.response, <<>>)
               IN  /\ Deliver("analyze_scenario", result, AfterAnalyze(result))
                   /\ body' = [phase |-> "idle",
                               scenario |-> state.current_scenario_index,
                               cov |-> NoCall,
                               tasks |-> SelectSeq(body.tasks, IsRunning),
                               order |-> <<>>]
            \/ /\ body' = [phase |-> "loaded",
                           scenario |-> state.current_scenario_index,
                           cov |-> NoCall,
                           tasks |-> SelectSeq(body.tasks, IsRunning),
                           order |-> <<>>]
               /\ UNCHANGED <<variant, pc, state, srs, api_key, log>>
               /\ UNCHANGED retry_vars
    /\ UNCHANGED cache

\* The coverage calls _identify_coverage can see: none is made when there are
\* no generated test cases.
CoverageCalls ==
    IF state.generated_test_cases = <<>> THEN {NoCall} ELSE ModelCalls(CoverageAnalyses)

\* await _identify_coverage(...), then the verification tasks are created.
BodyCoverage ==
    /\ variant = "nodes"
    /\ body.phase = "loaded"
    /\ \E cov \in CoverageCalls :
          LET c == identify_coverage(state, api_key, cov.api, cov.response)
          IN  IF c.raised \/ "error" \in DOMAIN c.result
              THEN LET result == analyze_scenario(state, api_key, TRUE, cov.api,
                                                  cov.response, <<>>)
                   IN  /\ Deliver("analyze_scenario", result, AfterAnalyze(result))
                       /\ body' = [body EXCEPT !.phase = "idle", !.cov = cov]
              ELSE /\ body' = [body EXCEPT
                                  !.phase = "verifying",
                                  !.cov = cov,
                                  !.tasks = @ \o VerificationTasks(
                                                    PresentCases(c.result.test_cases),
                                                    body.scenario)]
                   /\ UNCHANGED <<variant, pc, state, srs, api_key, log>>
                   /\ UNCHANGED retry_vars
    /\ UNCHANGED cache

\* One verification task runs to its end: its model call returns or raises.
\* body.order lists the tasks in the order in which they finished.
TaskFinish ==
    /\ variant = "nodes"
    /\ \E i \in 1..Len(body.tasks) :
          /\ body.tasks[i].status = "running"
          /\ \E call \in VerificationCalls :
                body' = [body EXCEPT !.tasks[i].status = "finished",
                                     !.tasks[i].call = call,
                                     !.order = Append(@, i)]
    /\ UNCHANGED <<variant, pc, state, srs, cache, api_key, log>>
    /\ UNCHANGED retry_vars

\* gather resumes; the false positives are collected, the confirmed cases are
\* flipped and the node returns its delta.
BodyReturn ==
    /\ variant = "nodes"
    /\ body.phase = "verifying"
    /\ GatherDone(CurrentTasks)
    /\ LET result == analyze_scenario(state, api_key, TRUE, body.cov.api,
                                      body.cov.response, TaskCalls)
       IN  Deliver("analyze_scenario", result, AfterAnalyze(result))
    /\ body' = [body EXCEPT !.phase = "idle"]
    /\ UNCHANGED cache

BodyNext ==
    \/ LoadScenarios
    \/ RetrieveRequirement
    \/ GenerateTestCases
    \/ BodyEnter
    \/ BodyCoverage
    \/ TaskFinish
    \/ BodyReturn
    \/ AggregateTestCases
    \/ GraphLoadScenarios
    \/ GraphRetrieveRequirement
    \/ GraphGenerateTestCases
    \/ LoadCurrentScenario
    \/ AnalyzeTestScenario
    \/ MoveToNextScenario
    \/ GraphAggregateTestCases

BodySpec == Init /\ [][BodyNext]_vars

(***************************************************************************)
(* aggregate_test_cases alone, on any accumulated scenario results         *)
(***************************************************************************)
\* Any list of at most two analyzed cases.
CaseLists ==
    {<<>>} \cup {<<a>> : a \in AnalyzedCases}
           \cup {<<a, b>> : a \in AnalyzedCases, b \in AnalyzedCases}

\* The state a run is in at the end of the scenario loop, one ScenarioResult
\* per scenario path.
StateWithResults(req_name, lists) ==
    [InitialState(req_name) EXCEPT
        !.scenario_paths = [i \in 1..Len(lists) |-> ScenarioFile(i)],
        !.current_scenario_index = Len(lists),
        !.requirement_description = SrsA.requirements[req_name],
        !.generated_test_cases =
            <<FormatTestCase(GeneratedCase("TC-001")), FormatTestCase(GeneratedCase("TC-002"))>>,
        !.scenario_results =
            [i \in 1..Len(lists) |->
                [scenario_name |-> Stem(ScenarioFile(i)),
                 scenario_path |-> ScenarioFile(i),
                 test_cases |-> lists[i]]]]

AggInit ==
    /\ RetryIdle
    /\ variant \in {"nodes", "graph"}
    /\ pc = "aggregate_test_cases"
    /\ state \in {StateWithResults(r, lists) :
                     r \in ReqNames, lists \in BoundedSeq(CaseLists, MaxScenarios)}
    /\ srs = SrsA
    /\ cache = <<>>
    /\ api_key = TRUE
    /\ log = <<>>
    /\ body = BodyIdle

AggNext == AggregateTestCases \/ GraphAggregateTestCases

AggSpec == AggInit /\ [][AggNext]_vars

(***************************************************************************)
(* Claims about aggregation                                                *)
(***************************************************************************)
Results == state.scenario_results

Aggregated == state.aggregated_test_cases

\* The positions <<r, j>> of the test cases recorded in the scenario results.
Entries(results) ==
    UNION {{<<r, j>> : j \in 1..Len(results[r].test_cases)} : r \in 1..Len(results)}

EntryAt(results, p) == results[p[1]].test_cases[p[2]]

\* The test-case ids that occur in some ScenarioResult.
IdsIn(results) == {EntryAt(results, p).id : p \in Entries(results)}

PresentSomewhere(results, k) ==
    \E p \in Entries(results) : EntryAt(results, p).id = k /\ EntryAt(results, p).present

\* C1: after aggregation, every id occurring in some ScenarioResult has an
\* aggregated entry, and that entry is present exactly when some ScenarioResult
\* entry with this id is present (scenarios not mentioning the id do not vote).
C1_OrFold ==
    pc = "done" =>
        \A k \in IdsIn(Results) :
            /\ \E i \in 1..Len(Aggregated) : Aggregated[i].id = k
            /\ \A i \in 1..Len(Aggregated) :
                  Aggregated[i].id = k
                      => (Aggregated[i].present <=> PresentSomewhere(Results, k))

\* TC-002 present in the first scenario, absent in the second, and the first
\* scenario's later entry is not the last word on it.
C1_Witness ==
    /\ pc = "done"
    /\ Len(Results) = 2
    /\ \E j \in 1..Len(Results[1].test_cases) :
          Results[1].test_cases[j] = AnalyzedCase("TC-002", TRUE)
    /\ Results[2].test_cases = <<AnalyzedCase("TC-002", FALSE)>>
    /\ \E i \in 1..Len(Aggregated) : Aggregated[i] = AnalyzedCase("TC-002", TRUE)

\* The aggregate of `results` as the running graph computes it.
AggregateOf(results) ==
    IF variant = "nodes"
    THEN aggregate_test_cases([state EXCEPT !.scenario_results = results]).delta.aggregated_test_cases
    ELSE graph_aggregate_test_cases([state EXCEPT !.scenario_results = results]).delta.aggregated_test_cases

IdPresentPairs(aggregated) ==
    {<<aggregated[i].id, aggregated[i].present>> : i \in 1..Len(aggregated)}

IndexPermutations(n) == {f \in [1..n -> 1..n] : \A i, j \in 1..n : f[i] = f[j] => i = j}

\* C2: folding any permutation of scenario_results gives the same set of
\* (id, present) pairs as the aggregate the run stored.
C2_OrderIndependent ==
    pc = "done" =>
        \A f \in IndexPermutations(Len(Results)) :
            IdPresentPairs(AggregateOf([i \in 1..Len(Results) |-> Results[f[i]]]))
                = IdPresentPairs(Aggregated)

\* Two scenarios that disagree on an id, so that the order could matter.
C2_Witness ==
    /\ pc = "done"
    /\ Len(Results) = 2
    /\ \E k \in TestCaseIds :
          /\ \E j \in 1..Len(Results[1].test_cases) :
                Results[1].test_cases[j] = AnalyzedCase(k, TRUE)
          /\ \E j \in 1..Len(Results[2].test_cases) :
                Results[2].test_cases[j] = AnalyzedCase(k, FALSE)

\* C3: the aggregate holds exactly one entry per distinct id of the scenario
\* results, none for an id that occurs in no result, and is empty when there
\* are no results.
C3_OneEntryPerId ==
    pc = "done" =>
        /\ {Aggregated[i].id : i \in 1..Len(Aggregated)} = IdsIn(Results)
        /\ \A i, j \in 1..Len(Aggregated) : Aggregated[i].id = Aggregated[j].id => i = j
        /\ Results = <<>> => Aggregated = <<>>

\* One scenario lists an id twice and another lists it again.
C3_Witness ==
    /\ pc = "done"
    /\ Len(Results) = 2
    /\ Results[1].test_cases = <<AnalyzedCase("TC-001", FALSE), AnalyzedCase("TC-001", TRUE)>>
    /\ Results[2].test_cases = <<AnalyzedCase("TC-001", FALSE)>>
    /\ Len(Aggregated) = 1

(***************************************************************************)
(* Claims about the retry executor                                         *)
(***************************************************************************)
\* The spec's classification, stated on the message alone.
SpecTransient(msg) ==
    \E i \in 1..Len(msg) : msg[i] \in {"503", "Service unavailable"}

FailsWith(k) == ~r_script[k].ok

\* The service fails max_retries times with a transient error, then succeeds.
FailsThenSucceeds ==
    /\ \A k \in 1..r_max_retries : FailsWith(k) /\ SpecTransient(r_script[k].msg)
    /\ r_script[r_max_retries + 1].ok

\* C4 (as claimed): with the default max_retries, a call that fails with a
\* transient error max_retries times and then succeeds is attempted
\* max_retries + 1 times, returns the successful result and sleeps
\* max_retries times, for delay * 2^attempt each.
C4_RetryBound ==
    (r_max_retries = MAX_RETRIES /\ FailsThenSucceeds /\ r_st.status # "running")
        => /\ r_st.status = "returned"
           /\ r_st.calls = r_max_retries + 1
           /\ r_st.value = <<"response", r_max_retries + 1>>
           /\ r_st.sleeps = [i \in 1..r_max_retries |-> r_delay * Pow2(i - 1)]

\* C5: a fatal error (one without the 503 / service-unavailable signal) is
\* propagated at once, on whichever attempt it occurs: the attempt that raised
\* it is the last one, no sleep follows it, and it is the error raised; a call
\* whose first attempt fails fatally is attempted once and never sleeps.
C5_FatalPropagatesImmediately ==
    \A k \in 1..r_st.calls :
        (FailsWith(k) /\ ~SpecTransient(r_script[k].msg))
            => /\ k = r_st.calls
               /\ r_st.status = "raised"
               /\ r_st.value = r_script[k].msg
               /\ Len(r_st.sleeps) = k - 1
               /\ (k = 1 => r_st.sleeps = <<>>)

C5_Witness ==
    /\ r_st.status = "raised"
    /\ r_st.calls = 2
    /\ SpecTransient(r_script[1].msg)
    /\ ~SpecTransient(r_st.value)

AllAttemptsTransient ==
    /\ r_max_retries >= 1
    /\ \A k \in 1..r_max_retries : FailsWith(k) /\ SpecTransient(r_script[k].msg)

\* C6: when every attempt fails with a transient error, the executor stops
\* after max_retries attempts and raises the error of the last attempt; it
\* never returns a value.
C6_ExhaustionPropagatesLast ==
    AllAttemptsTransient
        => /\ r_st.status # "returned"
           /\ r_st.status = "running" => r_st.calls < r_max_retries
           /\ r_st.status # "running"
                 => /\ r_st.status = "raised"
                    /\ r_st.calls = r_max_retries
                    /\ r_st.value = r_script[r_max_retries].msg

C6_Witness ==
    /\ AllAttemptsTransient
    /\ r_max_retries = MAX_RETRIES
    /\ r_st.status = "raised"
    /\ r_script[1].msg # r_script[r_max_retries].msg
    /\ r_st.value = r_script[r_max_retries].msg

(***************************************************************************)
(* Claims about the scenario loop and the terminal state                   *)
(***************************************************************************)
Index == state.current_scenario_index

Paths == state.scenario_paths

\* The nodes that make up the loop body.
BodyNodes ==
    {"analyze_scenario", "load_current_scenario", "analyze_test_scenario",
     "move_to_next_scenario"}

\* The log entries of the loop body that worked on scenario j.
BodyEntries(j) ==
    {i \in 1..Len(log) : log[i].node \in BodyNodes /\ log[i].index = j}

\* The analysis of scenario f ended in a node-local error.
ScenarioFailedAt(f) == \E i \in BodyEntries(f) : "errors" \in log[i].keys

\* Scenario j was analyzed: its iteration recorded a result or an error.
ScenarioAnalyzed(j) ==
    \E i \in BodyEntries(j) : log[i].keys \cap {"errors", "scenario_results"} # {}

\* The iteration on scenario j recorded a ScenarioResult.
ScenarioSucceeded(j) == \E i \in BodyEntries(j) : "scenario_results" \in log[i].keys

RunsOf(node) == {i \in 1..Len(log) : log[i].node = node}

NoScenariosError == <<"No scenarios found for ", state.req_name>>

\* C7: current_scenario_index never decreases and stays within
\* 0..len(scenario_paths) in every state of the run.
C7_IndexMonotoneAndBounded ==
    [][/\ Index' >= Index
       /\ 0 <= Index'
       /\ Index' <= Len(Paths')]_vars

\* C8: no run is cut short by a node; the loop body runs at most once per
\* scenario path (once when there is none), Aggregate runs exactly once before
\* Done, and the aggregate covers the ids of the results gathered.
C8_RunReachesDone ==
    /\ pc # "raised"
    /\ \A j \in 0..MaxScenarios :
          Cardinality({i \in BodyEntries(j) : log[i].node = "analyze_scenario"}) <= 1
    /\ pc = "done" =>
          /\ Cardinality(RunsOf("aggregate_test_cases")) = 1
          /\ {Aggregated[i].id : i \in 1..Len(Aggregated)} = IdsIn(Results)

\* C9: a finished run whose requirement was found but has no scenario files
\* ends with errors = ["No scenarios found for <req_name>"] and an empty
\* aggregate.
C9_NoScenariosTerminalState ==
    (/\ variant = "nodes"
     /\ pc = "done"
     /\ Paths = <<>>
     /\ state.requirement_description # <<>>)
        => /\ state.errors = <<NoScenariosError>>
           /\ Aggregated = <<>>

C11_NoExceptionCrossesNode ==
    [][variant = "nodes"
          => /\ pc' # "raised"
             /\ Len(state'.errors) <= Len(state.errors) + 1]_vars

(***************************************************************************)
(* Claims about the false-positive verifier                                *)
(***************************************************************************)
\* The cases the coverage call returned for the scenario in progress.
Marked ==
    LET c == identify_coverage(state, api_key, body.cov.api, body.cov.response)
    IN  c.result.test_cases

\* The positions in a list of cases of those marked present, in order.
PresentPositions(test_cases) ==
    SelectSeq([p \in 1..Len(test_cases) |-> p], LAMBDA p : test_cases[p].present)

CallRaised(call) == call.api.raised

\* The verification call returned a verdict that confirms a false positive.
CallConfirmed(call) ==
    /\ ~call.api.raised
    /\ get_parsed(call.response) # None
    /\ get_parsed(call.response).is_false_positive

\* analyze_scenario stores its result: the step from the joined tasks to the
\* merged delta.
StoresResult == body.phase = "verifying" /\ body'.phase = "idle"

StoredResult == state'.scenario_results[Len(state'.scenario_results)]

NewFalsePositives ==
    SubSeq(state'.false_positives, Len(state.false_positives) + 1,
           Len(state'.false_positives))

ConfirmedTasks == {i \in 1..Len(CurrentTasks) : CallConfirmed(CurrentTasks[i].call)}

\* C12: when a verification call raises, the case it was about is stored with
\* present = true, the false positives recorded are those of the confirming
\* calls only, errors gets no entry, and the cases whose calls confirmed a
\* false positive are still flipped.
C12_RaisedVerificationKeepsPresent ==
    [][StoresResult =>
          \A i \in 1..Len(CurrentTasks) :
              CallRaised(CurrentTasks[i].call) =>
                  /\ StoredResult.test_cases[PresentPositions(Marked)[i]].present
                  /\ Len(NewFalsePositives) = Cardinality(ConfirmedTasks)
                  /\ state'.errors = state.errors
                  /\ \A j \in ConfirmedTasks :
                        ~StoredResult.test_cases[PresentPositions(Marked)[j]].present]_vars

\* The position p of the coverage result was confirmed a false positive by
\* its own verification call.
ConfirmedAt(p) ==
    \E i \in ConfirmedTasks : PresentPositions(Marked)[i] = p

\* C13: every stored present value is (marked present) and not (confirmed a
\* false positive), and each confirmed case has exactly one FalsePositive
\* entry among those the scenario adds.
C13_StoredPresentIsMarkedAndNotConfirmed ==
    [][StoresResult =>
          /\ Len(StoredResult.test_cases) = Len(Marked)
          /\ \A p \in 1..Len(Marked) :
                StoredResult.test_cases[p].present
                    = (Marked[p].present /\ ~ConfirmedAt(p))
          /\ Len(NewFalsePositives) = Cardinality(ConfirmedTasks)
          /\ \A i \in ConfirmedTasks :
                Cardinality({k \in 1..Len(NewFalsePositives) :
                    NewFalsePositives[k].test_case_id = CurrentTasks[i].tc.id}) = 1]_vars

(***************************************************************************)
(* get_requirement alone, on a document that changes between calls         *)
(***************************************************************************)
CacheReqIds == {"REQ-001", "REQ-002"}

\* A parseable SRS with the given SHA256 whose text defines the given ids.
SrsVersion(hash, text, ids) ==
    [hash |-> hash, parseable |-> TRUE, requirements |-> [r \in ids |-> <<text, r>>]]

\* The versions of the SRS: two that define both ids with different texts,
\* one from which REQ-002 was removed, and a file pymupdf cannot open.
Documents ==
    {SrsVersion("sha-1", "text 1 of ", CacheReqIds),
     SrsVersion("sha-2", "text 2 of ", CacheReqIds),
     SrsVersion("sha-3", "text 3 of ", {"REQ-001"}),
     SrsCorrupt}

CacheInit ==
    /\ RetryIdle
    /\ variant = "nodes"
    /\ pc = "idle"
    /\ state = <<>>
    /\ srs \in Documents
    /\ cache = <<>>
    /\ api_key = TRUE
    /\ log = <<>>
    /\ body = <<>>

\* One call of get_requirement; log keeps the call: what was asked, the
\* document and the cache it found, and what it gave back.
CallGetRequirement ==
    /\ \E req_id \in CacheReqIds :
          LET got == get_requirement(req_id, srs, cache)
          IN  /\ cache' = got.cache
              /\ log' = << [req |-> req_id, doc |-> srs, before |-> cache,
                            raised |-> got.raised, result |-> got.result] >>
    /\ UNCHANGED <<variant, pc, state, srs, api_key, body>>
    /\ UNCHANGED retry_vars

\* The SRS file is replaced by another version.
ChangeDocument ==
    /\ srs' \in Documents \ {srs}
    /\ UNCHANGED <<variant, pc, state, cache, api_key, log, body>>
    /\ UNCHANGED retry_vars

CacheNext == CallGetRequirement \/ ChangeDocument

CacheSpec == CacheInit /\ [][CacheNext]_vars

LastCall == log[1]

\* The last call asked for an id that was cached under another document hash.
AskedAfterChange ==
    /\ log # <<>>
    /\ LastCall.req \in DOMAIN LastCall.before
    /\ CacheGet(LastCall.before, "_pdf_hash") # <<get_pdf_hash(LastCall.doc)>>

\* C14: a call for a cached id after the document changed does not return the
\* value cached before the change, leaves the current document's hash stored,
\* and leaves a cache from which no id is served its pre-change value.
C14_CacheInvalidation ==
    AskedAfterChange =>
        /\ LastCall.raised \/ LastCall.result # LastCall.before[LastCall.req]
        /\ CacheGet(cache, "_pdf_hash") = <<get_pdf_hash(LastCall.doc)>>
        /\ \A q \in CacheReqIds \cap DOMAIN LastCall.before :
              LET again == get_requirement(q, LastCall.doc, cache)
              IN  again.raised \/ again.result # LastCall.before[q]

\* Both ids were cached, the document changed, and the call returned the new
\* text of the id asked for.
C14_Witness ==
    /\ AskedAfterChange
    /\ CacheReqIds \subseteq DOMAIN LastCall.before
    /\ ~LastCall.raised
    /\ LastCall.result = LastCall.doc.requirements[LastCall.req]

(***************************************************************************)
(* Claims about test-case generation and the ids                           *)
(***************************************************************************)
\* C15: generate_test_cases never delivers generated_test_cases as an empty
\* list: a structured response with zero test cases is reported in errors.
C15_ZeroTestCasesIsError ==
    variant = "nodes" =>
        \A i \in RunsOf("generate_test_cases") :
            "generated_test_cases" \in log[i].keys
                => /\ state.generated_test_cases # <<>>
                   /\ "errors" \notin log[i].keys

\* ---------------------------------------------------------------------------
\* Ids of generated test cases and of scenario results.
\* ---------------------------------------------------------------------------

\* The id of a formatted entry f"{tc.id}: {tc.description}" is its first word.
GeneratedIds == {state.generated_test_cases[i][1] :
                    i \in 1..Len(state.generated_test_cases)}

ResultIds ==
    UNION {{state.scenario_results[r].test_cases[k].id :
                k \in 1..Len(state.scenario_results[r].test_cases)} :
           r \in 1..Len(state.scenario_results)}

\* C16: in every reachable state the ids of generated_test_cases are pairwise
\* distinct, and every test-case id of every ScenarioResult in scenario_results
\* is the id of some entry of generated_test_cases, whatever ids the generation
\* and coverage calls return.
C16_IdsUniqueAndKnown ==
    variant = "nodes" =>
        /\ \A i, j \in 1..Len(state.generated_test_cases) :
              state.generated_test_cases[i][1] = state.generated_test_cases[j][1]
                  => i = j
        /\ ResultIds \subseteq GeneratedIds

\* ---------------------------------------------------------------------------
\* Empty scenario list and short-circuiting on errors.
\* ---------------------------------------------------------------------------

LastRun == log[Len(log)]

\* load_scenarios has just returned and the state holds no scenario path.
LocatedNothing ==
    /\ pc = "load_scenarios"
    /\ pc' # "raised"
    /\ Paths' = <<>>

\* A node after load_scenarios is entered with errors recorded.
EnteredWithErrors ==
    /\ pc \in {"generate_test_cases", "analyze_scenario"}
    /\ state.errors # <<>>

\* The step returned a delta that writes at most the scenario index.
ShortCircuited ==
    /\ pc' # "raised"
    /\ Len(log') = Len(log) + 1
    /\ LastRun'.keys \subseteq {"current_scenario_index"}
    /\ \A k \in DOMAIN state :
          k # "current_scenario_index" => state'[k] = state[k]

\* C17: when the locator yields zero scenario paths, load_scenarios appends a
\* 'no scenarios' error to errors; with errors non-empty generate_test_cases and
\* the loop body make no model call and return an empty delta except for the
\* index.
C17_EmptyLocatorIsErrorAndShortCircuits ==
    [][variant = "nodes" =>
          /\ LocatedNothing => state'.errors = <<NoScenariosError>>
          /\ EnteredWithErrors => ShortCircuited]_vars

\* ---------------------------------------------------------------------------
\* One scenario at a time.
\* ---------------------------------------------------------------------------

\* results follows the order of paths: result r is about the path at a
\* position that grows with r.
InProcessingOrder(results, paths) ==
    \E f \in [1..Len(results) -> 1..Len(paths)] :
        /\ \A r \in 1..Len(results) : results[r].scenario_path = paths[f[r]]
        /\ \A r, q \in 1..Len(results) : r < q => f[r] < f[q]

\* A verification task that has not finished.
RunningTasks == {i \in 1..Len(body.tasks) : IsRunning(body.tasks[i])}

\* C18: scenarios are processed strictly one at a time. A verification call is
\* in flight only while the body works on the scenario it belongs to; the body
\* works on the scenario of the current index only after the bodies of all
\* earlier scenarios have returned, and on no scenario twice; the body's steps
\* are logged in scenario order and scenario_results is in processing order.
C18_OneScenarioAtATime ==
    /\ \A i \in RunningTasks :
          /\ body.phase = "verifying"
          /\ body.tasks[i].scenario = body.scenario
    /\ body.phase # "idle" =>
          /\ pc = "analyze_scenario"
          /\ body.scenario = Index
          /\ BodyEntries(body.scenario) = {}
          /\ \A j \in 0..(body.scenario - 1) : BodyEntries(j) # {}
    /\ \A a, b \in 1..Len(log) :
          (a < b /\ log[a].node \in BodyNodes /\ log[b].node \in BodyNodes)
              => log[a].index <= log[b].index
    /\ InProcessingOrder(Results, Paths)

\* The second scenario's verification is in flight after the first scenario's
\* result and false positive were stored.
C18_Witness ==
    /\ variant = "nodes"
    /\ body.phase = "verifying"
    /\ body.scenario = 1
    /\ RunningTasks # {}
    /\ Len(Results) = 1
    /\ state.false_positives # <<>>

\* ---------------------------------------------------------------------------
\* The loop guard.
\* ---------------------------------------------------------------------------

\* The node after which the guard is evaluated, and the node the loop body
\* starts with.
GuardedNode == IF variant = "nodes" THEN "analyze_scenario" ELSE "move_to_next_scenario"

BodyEntry == IF variant = "nodes" THEN "analyze_scenario" ELSE "load_current_scenario"

UnconditionalEdges == IF variant = "nodes" THEN NodesEdges ELSE GraphEdges

\* C19: the guard answers 'continue' (the body is entered again) exactly when
\* errors is empty and current_scenario_index < len(scenario_paths), and 'end'
\* (aggregation) otherwise; every other transition is unconditional.
C19_GuardContinuesIffCleanAndInRange ==
    [][IF pc = GuardedNode
       THEN pc' # "raised" =>
               /\ pc' = BodyEntry <=>
                      (state'.errors = <<>> /\ Index' < Len(Paths'))
               /\ pc' = "aggregate_test_cases" <=>
                      ~(state'.errors = <<>> /\ Index' < Len(Paths'))
       ELSE pc' \in {"raised", UnconditionalEdges[pc]}]_vars

\* The guard has sent the run back into the body for the second scenario.
C19_Witness ==
    /\ pc = BodyEntry
    /\ Index = 1
    /\ state.errors = <<>>
    /\ Len(Paths) = 2
    /\ log[Len(log)].node = GuardedNode

\* ---------------------------------------------------------------------------
\* Fan-out and join of the verification tasks.
\* ---------------------------------------------------------------------------

\* The step in which _verify_false_positives creates its tasks.
LaunchesTasks == body.phase = "loaded" /\ body'.phase = "verifying"

LaunchedTasks == SubSeq(body'.tasks, Len(body.tasks) + 1, Len(body'.tasks))

\* C20: within one scenario exactly one verification task is launched per case
\* the coverage result marks present, in one step (none for absent cases, none
\* when no case is present); no task is launched in any other step, and the
\* node does not return while a task is still running.
C20_OneTaskPerPresentCaseJoined ==
    [][variant = "nodes" =>
          /\ LaunchesTasks =>
                /\ CurrentTasks = <<>>
                /\ CurrentTasks' = LaunchedTasks
                /\ Len(LaunchedTasks) = Len(PresentPositions(Marked'))
                /\ \A i \in 1..Len(LaunchedTasks) :
                      /\ LaunchedTasks[i].tc = Marked'[PresentPositions(Marked')[i]]
                      /\ IsRunning(LaunchedTasks[i])
          /\ ~LaunchesTasks => Len(body'.tasks) <= Len(body.tasks)
          /\ Len(log') > Len(log) => RunningTasks = {}]_vars

\* Two cases were marked present and their two tasks are in flight together.
C20_Witness ==
    /\ variant = "nodes"
    /\ body.phase = "verifying"
    /\ Len(PresentPositions(Marked)) = 2
    /\ Len(CurrentTasks) = 2
    /\ RunningTasks = {1, 2}

\* ---------------------------------------------------------------------------
\* Completion order of the verification calls.
\* ---------------------------------------------------------------------------

\* The ids of the cases whose own verification call confirmed a false
\* positive, whatever the order in which the calls completed.
ConfirmedIds == {CurrentTasks[i].tc.id : i \in ConfirmedTasks}

\* C21: whatever the completion order of the verification calls of a scenario
\* (body.order), and whether they return or raise, the set of false-positive
\* ids recorded, the ScenarioResult stored and the aggregate are determined by
\* the verdict of each case's own call.
C21_OutcomeIndependentOfCompletionOrder ==
    [][variant = "nodes" =>
          /\ StoresResult =>
                /\ {NewFalsePositives[k].test_case_id :
                       k \in 1..Len(NewFalsePositives)} = ConfirmedIds
                /\ StoredResult.scenario_path = Paths[body.scenario + 1]
                /\ StoredResult.test_cases =
                       [p \in 1..Len(Marked) |->
                           IF Marked[p].id \in ConfirmedIds
                           THEN [Marked[p] EXCEPT !.present = FALSE]
                           ELSE Marked[p]]
          /\ pc' = "done" =>
                Aggregated' = AggregateFold(<<>>, AllTestCases(Results))]_vars

\* Two verification calls finished in the reverse of the order in which they
\* were launched, with different verdicts, and the result was stored.
C21_Witness ==
    /\ variant = "nodes"
    /\ body.phase = "idle"
    /\ body.order = <<2, 1>>
    /\ Len(CurrentTasks) = 2
    /\ CurrentTasks[1].tc.id # CurrentTasks[2].tc.id
    /\ CallConfirmed(CurrentTasks[1].call)
    /\ CallRaised(CurrentTasks[2].call)
    /\ Len(Results) = body.scenario + 1

\* ---------------------------------------------------------------------------
\* The loop body and the scenario index.
\* ---------------------------------------------------------------------------

\* The step appended exactly one ScenarioResult, for the scenario at the index
\* the body was entered with.
AppendsResultOfEnteredScenario ==
    /\ Len(Results') = Len(Results) + 1
    /\ SubSeq(Results', 1, Len(Results)) = Results
    /\ Results'[Len(Results')].scenario_path = Paths[Index + 1]

\* C22: every execution of the loop body increases current_scenario_index by
\* exactly 1, and an execution that succeeds appends exactly one ScenarioResult
\* for the scenario at the index it was entered with.
C22_BodyAdvancesIndexByOne ==
    [][(variant = "nodes" /\ pc = "analyze_scenario") =>
          /\ Index' = Index + 1
          /\ "scenario_results" \in LastRun'.keys => AppendsResultOfEnteredScenario]_vars

(***************************************************************************)
(* _extract_requirement on the text of a document                          *)
(***************************************************************************)
\* A document text is a sequence of tokens: requirement identifiers (what
\* REQ_PATTERN matches), a plain word, a blank and a line break.
MaxDocLen == 5

IdentifierTokens == {"REQ-001", "REQ-002"}

Whitespace == {" ", "\n"}

Tokens == IdentifierTokens \cup {"word"} \cup Whitespace

DocumentTexts == UNION {[1..n -> Tokens] : n \in 0..MaxDocLen}

\* list(REQ_PATTERN.finditer(srs_text)): the start positions of the matches.
Matches(srs_text) ==
    SelectSeq([p \in 1..Len(srs_text) |-> p],
              LAMBDA p : srs_text[p] \in IdentifierTokens)

\* raw_text.split("\n")
RECURSIVE SplitLines(_)
SplitLines(text) ==
    IF \A p \in 1..Len(text) : text[p] # "\n"
    THEN <<text>>
    ELSE LET k == CHOOSE p \in 1..Len(text) :
                      /\ text[p] = "\n"
                      /\ \A q \in 1..(p - 1) : text[q] # "\n"
         IN  <<SubSeq(text, 1, k - 1)>> \o SplitLines(SubSeq(text, k + 1, Len(text)))

RECURSIVE LStrip(_)
LStrip(line) ==
    IF line # <<>> /\ Head(line) \in Whitespace THEN LStrip(Tail(line)) ELSE line

RECURSIVE RStrip(_)
RStrip(line) ==
    IF line # <<>> /\ line[Len(line)] \in Whitespace
    THEN RStrip(SubSeq(line, 1, Len(line) - 1))
    ELSE line

\* line.strip()
Strip(line) == RStrip(LStrip(line))

\* "\n".join(lines)
RECURSIVE JoinLines(_)
JoinLines(lines) ==
    IF lines = <<>> THEN <<>>
    ELSE IF Len(lines) = 1 THEN lines[1]
    ELSE lines[1] \o <<"\n">> \o JoinLines(Tail(lines))

\* [line.strip() for line in raw_text.split("\n") if line.strip()], joined.
CleanUp(raw_text) ==
    LET split == SplitLines(raw_text)
        stripped == [i \in 1..Len(split) |-> Strip(split[i])]
    IN  JoinLines(SelectSeq(stripped, LAMBDA line : line # <<>>))

\* As extract_requirement_text, but the text runs to the end of the document.
extract_requirement_text_to_end(req_id, srs_text) ==
    LET matches == Matches(srs_text)
        hits == {i \in 1..Len(matches) : srs_text[matches[i]] = req_id}
    IN  IF matches = <<>> \/ hits = {}
        THEN None
        ELSE LET i == CHOOSE h \in hits : \A g \in hits : h <= g
             IN  CleanUp(SubSeq(srs_text, matches[i], Len(srs_text)))

\* _extract_requirement(req_id, srs_text) on the tokens of the text.
extract_requirement_text(req_id, srs_text) ==
    LET matches == Matches(srs_text)
        hits == {i \in 1..Len(matches) : srs_text[matches[i]] = req_id}
    IN  IF matches = <<>> \/ hits = {}
        THEN None
        ELSE LET i == CHOOSE h \in hits : \A g \in hits : h <= g
                 next_pos == IF i + 1 <= Len(matches)
                             THEN matches[i + 1]
                             ELSE Len(srs_text) + 1
             IN  CleanUp(SubSeq(srs_text, matches[i], next_pos - 1))

\* A text and an id are given; log keeps what the call returned.
ExtractInit ==
    /\ RetryIdle
    /\ variant = "nodes"
    /\ pc = "idle"
    /\ state \in IdentifierTokens
    /\ srs \in DocumentTexts
    /\ cache = <<>>
    /\ api_key = TRUE
    /\ log = <<>>
    /\ body = <<>>

CallExtractRequirement ==
    /\ pc = "idle"
    /\ pc' = "extracted"
    /\ log' = << [result |-> extract_requirement_text(state, srs)] >>
    /\ UNCHANGED <<variant, state, srs, cache, api_key, body>>
    /\ UNCHANGED retry_vars

ExtractNext == CallExtractRequirement

ExtractSpec == ExtractInit /\ [][ExtractNext]_vars

\* The positions of srs at which an identifier stands / the id asked for.
IdentifierAt(p) == srs[p] \in IdentifierTokens

FirstOf(positions) == CHOOSE p \in positions : \A q \in positions : p <= q

\* From the first occurrence of the id asked for up to the next identifier, or
\* to the end of the document.
OwnedText ==
    LET start == FirstOf({p \in 1..Len(srs) : srs[p] = state})
        later == {p \in (start + 1)..Len(srs) : IdentifierAt(p)}
    IN  SubSeq(srs, start, IF later = {} THEN Len(srs) ELSE FirstOf(later) - 1)

\* The positions of a text that hold something other than whitespace.
Inked(text) == SelectSeq([p \in 1..Len(text) |-> p], LAMBDA p : text[p] \notin Whitespace)

\* What stands between two consecutive inked positions a < b once the text is
\* normalised: one line break if a line break lies between them, and the blanks
\* between them otherwise.
GapBetween(text, a, b) ==
    IF \E p \in (a + 1)..(b - 1) : text[p] = "\n"
    THEN <<"\n">>
    ELSE SubSeq(text, a + 1, b - 1)

RECURSIVE NormalisedFrom(_, _, _)
NormalisedFrom(text, inked, k) ==
    IF k > Len(inked) THEN <<>>
    ELSE IF k = Len(inked) THEN <<text[inked[k]]>>
    ELSE <<text[inked[k]]>> \o GapBetween(text, inked[k], inked[k + 1])
             \o NormalisedFrom(text, inked, k + 1)

Extracted == log[1].result

\* C23: the result is the text from the id's match up to the next identifier
\* (or the end of the document) with blank lines dropped and every line
\* stripped of surrounding whitespace; it is None when the id matches nowhere.
C23_ExtractOwnedTextNormalised ==
    pc = "extracted" =>
        IF \A p \in 1..Len(srs) : srs[p] # state
        THEN Extracted = None
        ELSE /\ Extracted = NormalisedFrom(OwnedText, Inked(OwnedText), 1)
             /\ Extracted[1] \notin Whitespace
             /\ Extracted[Len(Extracted)] \notin Whitespace
             /\ \A p \in 1..(Len(Extracted) - 1) :
                   /\ Extracted[p] = "\n" => Extracted[p + 1] \notin Whitespace
                   /\ Extracted[p + 1] = "\n" => Extracted[p] \notin Whitespace

\* The id is followed by a blank, a blank line, a word and another identifier:
\* blank line and trailing blank go, the text stops before the next identifier.
C23_Witness ==
    /\ pc = "extracted"
    /\ state = "REQ-001"
    /\ srs = <<"REQ-001", " ", "\n", "word", "REQ-002">>
    /\ Extracted = <<"REQ-001", "\n", "word">>

(***************************************************************************)
(* rag.py, retrieve_requirement: the resolver that asks a vector store     *)
(***************************************************************************)
\* What the vector store search gives: it raises, or returns the chunks found.
RagSearches ==
    {[raised |-> TRUE, docs |-> <<>>], [raised |-> FALSE, docs |-> <<>>],
     [raised |-> FALSE, docs |-> <<"chunk">>]}

\* FilteredRequirement objects: requirement_text is "" when the model did not
\* find the requirement in the chunks.
FilteredRequirements ==
    {[requirement_text |-> <<>>], [requirement_text |-> <<"text of the requirement">>]}

\* The chat.parse_async call of rag.py, made without _retry_api_call.
RagCalls ==
    {[raised |-> TRUE, response |-> Response(None)]}
    \cup {[raised |-> FALSE, response |-> r] : r \in ResponsesOf(FilteredRequirements)}

\* rag.py's retrieve_requirement(RAGState(req_name, errors), runtime): the delta.
rag_retrieve_requirement(rag_state, search, call) ==
    IF search.raised
    THEN [errors |-> Append(rag_state.errors, <<"RAG error: ", "vector store">>)]
    ELSE IF search.docs = <<>>
    THEN [errors |-> Append(rag_state.errors,
                            <<"No document found for ", rag_state.req_name>>)]
    ELSE IF call.raised
    THEN [errors |-> Append(rag_state.errors, <<"RAG error: ", "mistral">>)]
    ELSE IF call.response.choices = <<>> \/ call.response.choices[1].message = None
    THEN [errors |-> Append(rag_state.errors, <<"RAG error: ", "No response from Mistral">>)]
    ELSE LET parsed == call.response.choices[1].message.parsed
         IN  IF ~Truthy(parsed) \/ parsed.requirement_text = <<>>
             THEN [errors |-> Append(rag_state.errors,
                                     <<"Could not extract ", rag_state.req_name>>)]
             ELSE [requirement_description |-> parsed.requirement_text]

(***************************************************************************)
(* Claims about a requirement that is not in the document                  *)
(***************************************************************************)
\* The last call asked a readable document for an id it does not define.
AskedForMissing ==
    /\ log # <<>>
    /\ LastCall.doc.parseable
    /\ LastCall.req \notin DOMAIN LastCall.doc.requirements

\* The delta retrieve_requirement_regex builds from a call's outcome.
DeltaOf(call) ==
    retrieve_requirement_regex([req_name |-> call.req, errors |-> <<>>], call)

\* The delta of the RAG resolver reports a requirement that was not found /
\* a search or model call that failed.
RagNotFound(delta) ==
    delta.errors[1][1] \in {"No document found for ", "Could not extract "}

RagFailed(delta) == delta.errors[1][1] = "RAG error: "

Runs == {"A", "B"}

\* A run that has not yet executed a statement of get_requirement(req_id).
RunStart(req_id) ==
    [at |-> "get_pdf_hash", req |-> req_id, current_hash |-> None,
     cached_hash |-> None, result |-> None]

RaceInit ==
    /\ RetryIdle
    /\ variant = "nodes"
    /\ pc = "idle"
    /\ state = <<>>
    /\ srs \in Documents
    /\ cache = <<>>
    /\ api_key = TRUE
    /\ log = <<>>
    /\ body \in [Runs -> {RunStart(r) : r \in CacheReqIds}]

\* The run goes on to another statement; nothing but its own locals changes.
RunMoves(run, locals) ==
    /\ body' = [body EXCEPT ![run] = locals]
    /\ UNCHANGED <<variant, pc, state, srs, api_key, log>>
    /\ UNCHANGED retry_vars

\* current_hash = _get_pdf_hash()
RunGetPdfHash(run) ==
    /\ body[run].at = "get_pdf_hash"
    /\ RunMoves(run, [body[run] EXCEPT !.at = "cache_get_hash",
                                       !.current_hash = <<get_pdf_hash(srs)>>])
    /\ UNCHANGED cache

\* cached_hash = _cache.get("_pdf_hash"), and the comparison
RunGetCachedHash(run) ==
    /\ body[run].at = "cache_get_hash"
    /\ LET cached_hash == CacheGet(cache, "_pdf_hash")
       IN  RunMoves(run, [body[run] EXCEPT
                             !.cached_hash = cached_hash,
                             !.at = IF cached_hash # body[run].current_hash
                                    THEN "cache_clear" ELSE "contains"])
    /\ UNCHANGED cache

\* _cache.clear()
RunClear(run) ==
    /\ body[run].at = "cache_clear"
    /\ cache' = <<>>
    /\ RunMoves(run, [body[run] EXCEPT !.at = "cache_set_hash"])

\* _cache["_pdf_hash"] = current_hash
RunSetHash(run) ==
    /\ body[run].at = "cache_set_hash"
    /\ cache' = CacheSet(cache, "_pdf_hash", body[run].current_hash)
    /\ RunMoves(run, [body[run] EXCEPT !.at = "contains"])

\* if req_id in _cache
RunContains(run) ==
    /\ body[run].at = "contains"
    /\ RunMoves(run, [body[run] EXCEPT
                         !.at = IF body[run].req \in DOMAIN cache
                                THEN "cache_get" ELSE "extract"])
    /\ UNCHANGED cache

\* cached_value = _cache[req_id]; return cached_value. The entry can have been
\* cleared since the test: KeyError.
RunGetCached(run) ==
    /\ body[run].at = "cache_get"
    /\ RunMoves(run, IF body[run].req \in DOMAIN cache
                     THEN [body[run] EXCEPT !.at = "returned",
                                            !.result = cache[body[run].req]]
                     ELSE [body[run] EXCEPT !.at = "raised"])
    /\ UNCHANGED cache

\* pymupdf.open(SRS_PATH) ... result = _extract_requirement(req_id, srs_text)
RunExtract(run) ==
    /\ body[run].at = "extract"
    /\ RunMoves(run, IF ~srs.parseable
                     THEN [body[run] EXCEPT !.at = "raised"]
                     ELSE LET result == extract_requirement(body[run].req, srs)
                          IN  [body[run] EXCEPT
                                  !.result = result,
                                  !.at = IF result # None THEN "store" ELSE "returned"])
    /\ UNCHANGED cache

\* _cache[req_id] = result; return result
RunStore(run) ==
    /\ body[run].at = "store"
    /\ cache' = CacheSet(cache, body[run].req, body[run].result)
    /\ RunMoves(run, [body[run] EXCEPT !.at = "returned"])

\* The SRS file is replaced, once; log keeps the version it replaced.
RaceChangeDocument ==
    /\ log = <<>>
    /\ srs' \in Documents \ {srs}
    /\ log' = <<srs>>
    /\ UNCHANGED <<variant, pc, state, cache, api_key, body>>
    /\ UNCHANGED retry_vars

RaceNext ==
    \/ \E run \in Runs : RunGetPdfHash(run)
    \/ \E run \in Runs : RunGetCachedHash(run)
    \/ \E run \in Runs : RunClear(run)
    \/ \E run \in Runs : RunSetHash(run)
    \/ \E run \in Runs : RunContains(run)
    \/ \E run \in Runs : RunGetCached(run)
    \/ \E run \in Runs : RunExtract(run)
    \/ \E run \in Runs : RunStore(run)
    \/ RaceChangeDocument

RaceSpec == RaceInit /\ [][RaceNext]_vars

BothRunsFinished == \A run \in Runs : body[run].at \in {"returned", "raised"}

\* C25: however two runs of get_requirement interleave with a change of the
\* document, a query made after both have finished returns what the document
\* at hand defines, never a text taken from an earlier version.
C25_NoStaleTextAfterInterleaving ==
    BothRunsFinished =>
        \A q \in CacheReqIds :
            LET later == get_requirement(q, srs, cache)
            IN  ~later.raised => later.result = extract_requirement(q, srs)

(***************************************************************************)
(* Claims about the shape of scenario_results                              *)
(***************************************************************************)
ResultPaths == [r \in 1..Len(Results) |-> Results[r].scenario_path]

\* The results recorded by the loop body for the scenario at index j.
ResultsRecordedAt(j) ==
    {i \in BodyEntries(j) : "scenario_results" \in log[i].keys}

\* C26 as stated: in every reachable state len(scenario_results) is at most
\* current_scenario_index, no scenario path occurs in two ScenarioResults, and
\* the paths of scenario_results are a subsequence of scenario_paths in order.
C26_ResultsBoundedByIndex ==
    /\ Len(Results) <= Index
    /\ \A r, q \in 1..Len(Results) : ResultPaths[r] = ResultPaths[q] => r = q
    /\ InProcessingOrder(Results, Paths)

\* C26 as amended: len(scenario_results) is at most current_scenario_index + 1,
\* and at most current_scenario_index except in graph.py between
\* analyze_test_scenario and move_to_next_scenario; every position of
\* scenario_paths has at most one ScenarioResult, and every ScenarioResult
\* belongs to one position; the paths of scenario_results are a subsequence of
\* scenario_paths in order.
C26_ResultsBoundedByIndexBetweenIterations ==
    /\ Len(Results) <= Index + 1
    /\ (variant = "nodes" \/ pc # "move_to_next_scenario") => Len(Results) <= Index
    /\ \A j \in 0..MaxScenarios : Cardinality(ResultsRecordedAt(j)) <= 1
    /\ Len(Results) = Cardinality({j \in 0..MaxScenarios : ResultsRecordedAt(j) # {}})
    /\ InProcessingOrder(Results, Paths)

\* graph.py has stored the second scenario's result and not yet advanced the
\* index.
C26_Witness ==
    /\ variant = "graph"
    /\ pc = "move_to_next_scenario"
    /\ Index = 1
    /\ Len(Results) = 2

(***************************************************************************)
(* Claims about what later nodes leave alone                               *)
(***************************************************************************)
AppendOnlyKeys == {"errors", "scenario_results", "false_positives"}

IsPrefix(a, b) == Len(a) <= Len(b) /\ SubSeq(b, 1, Len(a)) = a

Added(a, b) == SubSeq(b, Len(a) + 1, Len(b))

\* C27: errors, scenario_results and false_positives only grow at the end, and
\* no step adds to errors an entry that was already recorded. (Two analyses of
\* a path listed twice may record equal results, so repetition is judged on
\* errors, whose entries name their origin.)
C27_AppendOnlyWithoutRepeats ==
    [][/\ \A key \in AppendOnlyKeys : IsPrefix(state[key], state'[key])
       /\ \A i \in 1..Len(Added(state.errors, state'.errors)) :
             \A j \in 1..Len(state.errors) :
                 Added(state.errors, state'.errors)[i] # state.errors[j]]_vars

\* The keys written before the loop and read by it.
InputKeys ==
    {"req_name", "scenario_paths", "requirement_description", "generated_test_cases"}

\* The step is one of the loop body or of the aggregation.
LoopOrAggregateStep == pc \in BodyNodes \cup {"aggregate_test_cases"}

\* C28: the loop body and the aggregation leave req_name, scenario_paths,
\* requirement_description and generated_test_cases as they found them, and
\* merging a delta with an empty description into a state of nodes.py keeps the
\* description the state has.
C28_InputsImmutableAfterGeneration ==
    [][/\ LoopOrAggregateStep => \A key \in InputKeys : state'[key] = state[key]
       /\ variant = "nodes" =>
             Merge(state', [requirement_description |-> <<>>]).requirement_description
                 = state'.requirement_description]_vars

\* The loop body and the aggregation have run on a resolved requirement with
\* generated test cases.
C28_Witness ==
    /\ pc = "done"
    /\ variant = "nodes"
    /\ state.requirement_description # <<>>
    /\ state.generated_test_cases # <<>>
    /\ Len(Results) = 2

(***************************************************************************)
(* Claims about false positives and the aggregate                          *)
(***************************************************************************)
\* The result holds the id, and every entry it has for the id is not present.
ClearedIn(result, id) ==
    /\ \E k \in 1..Len(result.test_cases) : result.test_cases[k].id = id
    /\ \A k \in 1..Len(result.test_cases) :
          result.test_cases[k].id = id => ~result.test_cases[k].present

\* analyze_scenario has just stored a ScenarioResult.
StoredByThisStep ==
    /\ variant = "nodes"
    /\ pc = "analyze_scenario"
    /\ "scenario_results" \in LastRun'.keys

\* C29: each FalsePositive names the scenario_path of a ScenarioResult that
\* holds its test_case_id with present = false. The FalsePositives a scenario
\* adds are about the result stored with them, in which every entry of their
\* ids is not present; and an id is present in the aggregate only if some
\* stored entry of it is present, so an id confirmed a false positive wherever
\* it was marked present is not present in the aggregate.
C29_FalsePositivesAreCleared ==
    [][/\ \A f \in 1..Len(state'.false_positives) :
             \E r \in 1..Len(Results') :
                 /\ Results'[r].scenario_path = state'.false_positives[f].scenario_path
                 /\ ClearedIn(Results'[r], state'.false_positives[f].test_case_id)
       /\ StoredByThisStep =>
             \A f \in 1..Len(NewFalsePositives) :
                 /\ NewFalsePositives[f].scenario_path = StoredResult.scenario_path
                 /\ ClearedIn(StoredResult, NewFalsePositives[f].test_case_id)
       /\ pc' = "done" =>
             \A i \in 1..Len(Aggregated') :
                 Aggregated'[i].present =>
                     \E p \in Entries(Results') :
                         /\ EntryAt(Results', p).id = Aggregated'[i].id
                         /\ EntryAt(Results', p).present]_vars

\* TC-001 was marked present in both scenarios and confirmed a false positive
\* in both: the aggregate holds it as not present.
C29_Witness ==
    /\ variant = "nodes"
    /\ pc = "done"
    /\ Len(Results) = 2
    /\ Len(state.false_positives) = 2
    /\ \A f \in 1..2 : state.false_positives[f].test_case_id = "TC-001"
    /\ \E i \in 1..Len(Aggregated) :
          Aggregated[i].id = "TC-001" /\ ~Aggregated[i].present

(***************************************************************************)
(* Claims about the cost of the retries                                    *)
(***************************************************************************)
RECURSIVE SumOf(_)
SumOf(seq) == IF seq = <<>> THEN 0 ELSE Head(seq) + SumOf(Tail(seq))

\* C30: for max_retries >= 1 the wrapped call is made at most max_retries
\* times, at most max_retries - 1 sleeps are made, each sleep is followed by
\* another attempt (none follows the final attempt), and the time slept is at
\* most delay * (2^(max_retries - 1) - 1) in total.
C30_RetryCostBound ==
    r_max_retries >= 1 =>
        /\ r_st.calls <= r_max_retries
        /\ Len(r_st.sleeps) <= r_max_retries - 1
        /\ Len(r_st.sleeps) <= r_st.calls
        /\ r_st.status # "running" => Len(r_st.sleeps) = r_st.calls - 1
        /\ SumOf(r_st.sleeps) <= r_delay * (Pow2(r_max_retries - 1) - 1)

\* Every attempt failed with a transient error: the bounds are attained.
C30_Witness ==
    /\ r_max_retries = MAX_RETRIES
    /\ r_delay = RETRY_DELAY_SECONDS
    /\ r_st.status = "raised"
    /\ r_st.calls = r_max_retries
    /\ Len(r_st.sleeps) = r_max_retries - 1
    /\ SumOf(r_st.sleeps) = r_delay * (Pow2(r_max_retries - 1) - 1)

====
